---- MODULE Spec2Model ----
(***************************************************************************)
(* Model of ArJonVar/pull_historic_bamb_data.                              *)
(*                                                                         *)
(*   - the Employment Event Reconstructor of src/main.py                   *)
(*     (get_original_hire_date, get_date), specification ReconSpec, and    *)
(*     arrange_posting_data over it, specification ArrangeSpec;            *)
(*   - the Credential Vault of src/configs/crypter.py                      *)
(*     (encrypt, decrypt, encrypt_to_config, decrypt_from_config),         *)
(*     specifications VaultSpec, VaultFreshSpec (a store that starts       *)
(*     missing or empty) and VaultConcSpec (encrypt_to_config step by      *)
(*     step, two calls on one file);                                       *)
(*   - setup_logger of src/configs/setup_logger.py, specification          *)
(*     LoggerSpec;                                                         *)
(*   - delete_all_rows and post_new_rows of src/smartsheet_grid.py,        *)
(*     specification GridSpec.                                             *)
(*                                                                         *)
(* Python strings whose content the code inspects (employment statuses,    *)
(* secret names, store field names) are tuples of one-character strings.   *)
(* Dates are "YYYY-MM-DD" strings in the code; the code only compares them *)
(* with == and < (lexicographic, which on that format is the calendar      *)
(* order), so a date is modelled by its rank: 0 is "0000-00-00", the       *)
(* sentinel, which sorts before every real date.                           *)
(***************************************************************************)
EXTENDS Integers, Sequences, FiniteSets, TLC

VARIABLES
    empl,      \* Reconstructor: the employee status record {'id', 'data'}
    ret,       \* Reconstructor: the last call and its outcome
    fs,        \* Vault: the store files, by path
    calls,     \* Vault: number of encrypt() calls made (source of fresh keys)
    last,      \* Vault: the last call and its outcome
    written,   \* Vault: per (path, name), the record of the last encrypt_to_config
    empl_stat_data, \* Reconstructor: self.empl_stat_data, the records to arrange
    posting,   \* Reconstructor: the outcome of arrange_posting_data
    conc,      \* Vault: two encrypt_to_config calls in progress on one file
    logger,    \* setup_logger: the logging.Logger objects, by name
    sheet,     \* grid: the sheet and the requests sent to it
    hist_posting \* historic_data_pull.py: the outcome of arrange_posting_data

vars == <<empl, ret, fs, calls, last, written, empl_stat_data, posting, conc,
          logger, sheet, hist_posting>>

\* The state of arrange_posting_data.
arrangeVars == <<empl_stat_data, posting, hist_posting>>

(***************************************************************************)
(* Bounds.                                                                 *)
(***************************************************************************)
\* Longest event sequence of a record.
MaxEvents == 5
\* Largest date rank of the first two events (0 is the sentinel).
MaxDate == 2
\* Largest occurrence index passed to get_date.
MaxIndex == 3
\* Number of encrypt_to_config calls in one behaviour.
MaxCalls == 2
\* Number of setup_logger calls in one behaviour.
MaxSetups == 3
\* Largest number of rows of the sheet: two full delete requests and one row.
MaxRows == 401

(***************************************************************************)
(* Python values shared by the components.                                 *)
(***************************************************************************)
\* "0000-00-00"
SENTINEL == 0
\* "" as a returned date
EmptyString == -1
\* placeholder where there is no value (the call raised, no lookup was made)
NoValue == EmptyString - 1

Return(v) == [kind |-> "return", val |-> v, exc |-> ""]
Raise(e) == [kind |-> "raise", val |-> NoValue, exc |-> e]

\* Python's `pat in s` on strings: s has a contiguous slice equal to pat.
Contains(pat, s) ==
    \E i \in 1..(Len(s) + 1) :
        /\ i + Len(pat) - 1 <= Len(s)
        /\ SubSeq(s, i, i + Len(pat) - 1) = pat

(***************************************************************************)
(* Employment Event Reconstructor (src/main.py).                           *)
(***************************************************************************)
Terminated == <<"T","e","r","m","i","n","a","t","e","d">>
ReTerminated == <<"R","e","-","T","e","r","m","i","n","a","t","e","d">>
Active == <<"A","c","t","i","v","e">>
erminated == <<"e","r","m","i","n","a","t","e","d">>

Statuses == {Terminated, ReTerminated, Active}

\* The first two events carry any date; a later event i carries the date
\* MaxDate + i - 2, so that later events are told apart by their date.
EventDates(i) == IF i <= 2 THEN 0..MaxDate ELSE {MaxDate + i - 2}

Event(d, s) == [date |-> d, employmentStatus |-> s]

RECURSIVE EventSeqs(_)
EventSeqs(n) ==
    IF n = 0 THEN { <<>> }
    ELSE { Append(e, Event(d, s)) :
             e \in EventSeqs(n - 1), d \in EventDates(n), s \in Statuses }

\* What the directory returns for originalHireDate: a date string, which
\* may again be "0000-00-00".
LookupResults == 0..MaxDate

\* The search_value arguments.
SearchValues == {"Original Hire", "Terminated", "Hire"}

\* Mutant of SecondOverrides: the status of the second event is not looked at.
SecondOverridesNoStatus(status, second_hiredate, original_hiredate) ==
    second_hiredate < original_hiredate

\* main.py:149  input_data[1].get('employmentStatus') != "Terminated" and
\*              second_hiredate < original_hiredate
SecondOverrides(status, second_hiredate, original_hiredate) ==
    status # Terminated /\ second_hiredate < original_hiredate

\* Mutant of NoSecondEvent: the IndexError of input_data[1] is not caught.
NoSecondEventUncaught(original_hiredate) == Raise("IndexError")

\* main.py:151-153  except IndexError: pass  (no second event)
NoSecondEvent(original_hiredate) == Return(original_hiredate)

\* main.py:130-155.  api is the response of api_original_hire_date, read only
\* when the first date is the sentinel.
get_original_hire_date(input, api) ==
    LET input_data == input.data IN
    IF Len(input_data) = 0
    THEN [out |-> Raise("IndexError"), api_calls |-> 0]
    ELSE LET called == input_data[1].date = SENTINEL
             original_hiredate == IF called THEN api ELSE input_data[1].date
             out == IF Len(input_data) < 2
                    THEN NoSecondEvent(original_hiredate)
                    ELSE IF SecondOverrides(input_data[2].employmentStatus,
                                            input_data[2].date, original_hiredate)
                         THEN Return(input_data[2].date)
                         ELSE Return(original_hiredate)
         IN [out |-> out, api_calls |-> IF called THEN 1 ELSE 0]

\* Mutant of IsTermination: the status is compared with "Terminated".
IsTerminationExact(status) == status = Terminated

\* main.py:171  'erminated' in status, tabulated over the statuses
ErminatedIn == [status \in Statuses |-> Contains(erminated, status)]

\* main.py:171  'erminated' in status
IsTermination(status) == ErminatedIn[status]

\* Mutant of HireMatches: any event after the N-th termination matches.
HireMatchesAtLeast(search_value, term_count, param_index) ==
    search_value = "Hire" /\ term_count >= param_index

\* main.py:177  search_value == "Hire" and term_count == param_index
HireMatches(search_value, term_count, param_index) ==
    search_value = "Hire" /\ term_count = param_index

\* Mutant of TerminatedMatches: the first termination matches any index.
TerminatedMatchesFirst(search_value, term_count, param_index) ==
    search_value = "Terminated"

\* main.py:173  search_value == "Terminated" and term_count == param_index
TerminatedMatches(search_value, term_count, param_index) ==
    search_value = "Terminated" /\ term_count = param_index

\* main.py:164-180: the loop, from event i on with the counter term_count.
RECURSIVE scan(_, _, _, _, _)
scan(data, i, term_count, param_index, search_value) ==
    IF i > Len(data)
    THEN Return(EmptyString)
    ELSE LET status == data[i].employmentStatus
             date == data[i].date
         IN IF IsTermination(status)
            THEN IF TerminatedMatches(search_value, term_count + 1, param_index)
                 THEN Return(date)
                 ELSE scan(data, i + 1, term_count + 1, param_index, search_value)
            ELSE IF HireMatches(search_value, term_count, param_index)
                 THEN Return(date)
                 ELSE scan(data, i + 1, term_count, param_index, search_value)

\* main.py:156-180
get_date(input_data, param_index, search_value, api) ==
    IF search_value = "Original Hire"
    THEN get_original_hire_date(input_data, api)
    ELSE [out |-> scan(input_data.data, 1, 0, param_index, search_value),
          api_calls |-> 0]

NoCall == [fn |-> "none", param_index |-> 0, search_value |-> "", api |-> NoValue,
           out |-> Return(NoValue), api_calls |-> 0]

\* The Reconstructor is a pure function of the record: each call is taken from
\* the record as it arrived.
\* A call of get_original_hire_date on the record.
CallGetOriginalHireDate ==
    /\ ret = NoCall
    /\ \E api \in LookupResults :
          LET r == get_original_hire_date(empl, api) IN
          ret' = [fn |-> "get_original_hire_date", param_index |-> 0,
                  search_value |-> "",
                  api |-> IF r.api_calls > 0 THEN api ELSE NoValue,
                  out |-> r.out, api_calls |-> r.api_calls]
    /\ UNCHANGED <<empl, fs, calls, last, written, arrangeVars, conc, logger, sheet>>

\* A call of get_date on the record.
CallGetDate ==
    /\ ret = NoCall
    /\ \E param_index \in 0..MaxIndex, search_value \in SearchValues :
       \* only "Original Hire" reaches the directory (main.py:161-162)
       \E api \in IF search_value = "Original Hire" THEN LookupResults ELSE {SENTINEL} :
          LET r == get_date(empl, param_index, search_value, api) IN
          ret' = [fn |-> "get_date", param_index |-> param_index,
                  search_value |-> search_value,
                  api |-> IF r.api_calls > 0 THEN api ELSE NoValue,
                  out |-> r.out, api_calls |-> r.api_calls]
    /\ UNCHANGED <<empl, fs, calls, last, written, arrangeVars, conc, logger, sheet>>

\* main.py:164-180: the position of the event at which the loop returns, 0
\* when it runs off the end of the events (and "" is returned).
RECURSIVE scan_pos(_, _, _, _, _)
scan_pos(data, i, term_count, param_index, search_value) ==
    IF i > Len(data)
    THEN 0
    ELSE LET status == data[i].employmentStatus
         IN IF IsTermination(status)
            THEN IF TerminatedMatches(search_value, term_count + 1, param_index)
                 THEN i
                 ELSE scan_pos(data, i + 1, term_count + 1, param_index, search_value)
            ELSE IF HireMatches(search_value, term_count, param_index)
                 THEN i
                 ELSE scan_pos(data, i + 1, term_count, param_index, search_value)

\* The lifecycle fields of one posting record, in the order of the dict.
LifecycleFields == << "HRIS Original Hire", "HRIS Original Termination",
                      "HRIS Rehire", "HRIS Retermination", "HRIS Final Hire",
                      "HRIS Final Termination" >>

\* Mutant of FieldCall: 'HRIS Final Hire' is looked for after the first
\* termination, as 'HRIS Rehire' is.
FieldCallRehireTwice(field) ==
    CASE field = "HRIS Original Hire"        -> [n |-> 0, search_value |-> "Original Hire"]
      [] field = "HRIS Original Termination" -> [n |-> 1, search_value |-> "Terminated"]
      [] field = "HRIS Rehire"               -> [n |-> 1, search_value |-> "Hire"]
      [] field = "HRIS Retermination"        -> [n |-> 2, search_value |-> "Terminated"]
      [] field = "HRIS Final Hire"           -> [n |-> 1, search_value |-> "Hire"]
      [] field = "HRIS Final Termination"    -> [n |-> 3, search_value |-> "Terminated"]

\* main.py:191-196: the arguments of the get_date call that fills each field.
FieldCall(field) ==
    CASE field = "HRIS Original Hire"        -> [n |-> 0, search_value |-> "Original Hire"]
      [] field = "HRIS Original Termination" -> [n |-> 1, search_value |-> "Terminated"]
      [] field = "HRIS Rehire"               -> [n |-> 1, search_value |-> "Hire"]
      [] field = "HRIS Retermination"        -> [n |-> 2, search_value |-> "Terminated"]
      [] field = "HRIS Final Hire"           -> [n |-> 2, search_value |-> "Hire"]
      [] field = "HRIS Final Termination"    -> [n |-> 3, search_value |-> "Terminated"]

\* The keys of a posting record that are modelled.
PostingKeys == {"Id"} \cup { LifecycleFields[k] : k \in 1..Len(LifecycleFields) }

\* Mutant of posting_record: the original hire date is derived a second time
\* to log it.
posting_record_logged(empl_rec, api) ==
    LET first == get_date(empl_rec, FieldCall(LifecycleFields[1]).n,
                          FieldCall(LifecycleFields[1]).search_value, api)
    IN IF first.out.kind = "raise"
       THEN [out |-> first.out, api_calls |-> 2 * first.api_calls]
       ELSE [out |-> Return([f \in PostingKeys |->
                        IF f = "Id" THEN empl_rec.id
                        ELSE get_date(empl_rec, FieldCall(f).n,
                                      FieldCall(f).search_value, api).out.val]),
             api_calls |-> 2 * first.api_calls]

\* main.py:188-203: the dict of one employee.  'HRIS Original Hire' is the
\* first get_date call and the only one that can raise or reach the directory
\* (main.py:161-162); when it raises, no dict is built.  'Name', 'Sage Id',
\* 'Location', 'Job Title', 'Department', 'Division' and 'Work Email' are
\* copied from the directory and take no part in the lifecycle; they are left
\* out.
posting_record(empl_rec, api) ==
    LET first == get_date(empl_rec, FieldCall(LifecycleFields[1]).n,
                          FieldCall(LifecycleFields[1]).search_value, api)
    IN IF first.out.kind = "raise"
       THEN [out |-> first.out, api_calls |-> first.api_calls]
       ELSE [out |-> Return([f \in PostingKeys |->
                        IF f = "Id" THEN empl_rec.id
                        ELSE get_date(empl_rec, FieldCall(f).n,
                                      FieldCall(f).search_value, api).out.val]),
             api_calls |-> first.api_calls]

\* main.py:184-206: the loop over self.empl_stat_data from record i on.
\* apis[i] is the directory's originalHireDate of record i; api_log lists the
\* api_original_hire_date calls made, as <<id, response>>.
RECURSIVE arrange(_, _, _, _, _)
arrange(stat_data, i, apis, posting_data, api_log) ==
    IF i > Len(stat_data)
    THEN [out |-> Return(posting_data), api_log |-> api_log]
    ELSE LET r == posting_record(stat_data[i], apis[i])
             log2 == IF r.api_calls = 0 THEN api_log
                     ELSE api_log \o [k \in 1..r.api_calls |-> <<stat_data[i].id, apis[i]>>]
         IN IF r.out.kind = "raise"
            THEN [out |-> r.out, api_log |-> log2]
            ELSE arrange(stat_data, i + 1, apis, Append(posting_data, r.out.val), log2)

\* main.py:181-206
arrange_posting_data(stat_data, apis) == arrange(stat_data, 1, apis, <<>>, <<>>)

\* Records that stand before or after the record under study in
\* self.empl_stat_data: one whose first date is the sentinel, terminated and
\* rehired, and one without events.
Companions ==
    { [id |-> "2", data |-> << Event(SENTINEL, Active), Event(1, Terminated),
                               Event(2, Active) >>],
      [id |-> "2", data |-> << >>] }

\* self.empl_stat_data: no record, one record, or a record and a companion in
\* either order.
Rosters(e) ==
    { << >>, << e >> } \cup { << e, c >> : c \in Companions }
                       \cup { << c, e >> : c \in Companions }

\* The record reaches the directory iff its lookup is counted, whatever the
\* directory answers.
ReachesDirectory(empl_rec) == get_original_hire_date(empl_rec, SENTINEL).api_calls > 0

\* The directory's answers: one for each record that reaches it, any date
\* for the record under study and the date 1 for a companion.
Directory(stat_data) ==
    { apis \in [1..Len(stat_data) -> LookupResults \cup {NoValue}] :
        \A i \in 1..Len(stat_data) :
            /\ (apis[i] = NoValue) <=> ~ReachesDirectory(stat_data[i])
            /\ (apis[i] # NoValue /\ stat_data[i] \in Companions) => apis[i] = 1 }

NoPosting == [done |-> FALSE, apis |-> <<>>, out |-> Return(<<>>), api_log |-> <<>>]

ArrangeIdle == empl_stat_data = <<>> /\ posting = NoPosting /\ hist_posting = NoPosting

\* arrange_posting_data on self.empl_stat_data.
ArrangePostingData ==
    /\ posting = NoPosting
    /\ \E apis \in Directory(empl_stat_data) :
          \* the directory answers as it did to historic_data_pull.py
          /\ hist_posting.done => apis = hist_posting.apis
          /\ LET r == arrange_posting_data(empl_stat_data, apis) IN
             posting' = [done |-> TRUE, apis |-> apis, out |-> r.out,
                         api_log |-> r.api_log]
    /\ UNCHANGED <<empl, ret, fs, calls, last, written, empl_stat_data, conc,
                   logger, sheet, hist_posting>>

(***************************************************************************)
(* The second implementation (src/historic_data_pull.py), translated from  *)
(* its own text and sharing nothing with the operators above but the       *)
(* values of the input.                                                    *)
(***************************************************************************)
\* historic_data_pull.py:127-152
hdp_get_original_hire_date(input, api) ==
    LET input_data == input.data IN
    IF Len(input_data) = 0
    THEN [out |-> Raise("IndexError"), api_calls |-> 0]
    ELSE LET called == input_data[1].date = SENTINEL
             original_hiredate == IF called THEN api ELSE input_data[1].date
         IN [out |-> IF /\ Len(input_data) >= 2
                        /\ input_data[2].employmentStatus # Terminated
                        /\ input_data[2].date < original_hiredate
                     THEN Return(input_data[2].date)
                     ELSE Return(original_hiredate),
             api_calls |-> IF called THEN 1 ELSE 0]

\* historic_data_pull.py:168  'erminated' in status, tabulated over the statuses
hdp_ErminatedIn == [status \in Statuses |-> Contains(erminated, status)]

\* historic_data_pull.py:161-177: the loop, from event i on.
RECURSIVE hdp_scan(_, _, _, _, _)
hdp_scan(data, i, term_count, param_index, search_value) ==
    IF i > Len(data)
    THEN Return(EmptyString)
    ELSE IF hdp_ErminatedIn[data[i].employmentStatus]
         THEN IF search_value = "Terminated" /\ term_count + 1 = param_index
              THEN Return(data[i].date)
              ELSE hdp_scan(data, i + 1, term_count + 1, param_index, search_value)
         ELSE IF search_value = "Hire" /\ term_count = param_index
              THEN Return(data[i].date)
              ELSE hdp_scan(data, i + 1, term_count, param_index, search_value)

\* historic_data_pull.py:153-177
hdp_get_date(input_data, param_index, search_value, api) ==
    IF search_value = "Original Hire"
    THEN hdp_get_original_hire_date(input_data, api)
    ELSE [out |-> hdp_scan(input_data.data, 1, 0, param_index, search_value),
          api_calls |-> 0]

\* historic_data_pull.py:185-200: the dict of one employee, 'Id' and the six
\* lifecycle fields ('Division' is not among its other keys).
hdp_posting_record(empl_rec, api) ==
    LET first == hdp_get_date(empl_rec, 0, "Original Hire", api)
    IN IF first.out.kind = "raise"
       THEN [out |-> first.out, api_calls |-> first.api_calls]
       ELSE [out |-> Return(
                ("Id" :> empl_rec.id)
                @@ ("HRIS Original Hire" :> first.out.val)
                @@ ("HRIS Original Termination" :>
                       hdp_get_date(empl_rec, 1, "Terminated", api).out.val)
                @@ ("HRIS Rehire" :> hdp_get_date(empl_rec, 1, "Hire", api).out.val)
                @@ ("HRIS Retermination" :>
                       hdp_get_date(empl_rec, 2, "Terminated", api).out.val)
                @@ ("HRIS Final Hire" :> hdp_get_date(empl_rec, 2, "Hire", api).out.val)
                @@ ("HRIS Final Termination" :>
                       hdp_get_date(empl_rec, 3, "Terminated", api).out.val)),
             api_calls |-> first.api_calls]

\* historic_data_pull.py:181-203: the loop over self.empl_stat_data.
RECURSIVE hdp_arrange(_, _, _, _, _)
hdp_arrange(stat_data, i, apis, posting_data, api_log) ==
    IF i > Len(stat_data)
    THEN [out |-> Return(posting_data), api_log |-> api_log]
    ELSE LET r == hdp_posting_record(stat_data[i], apis[i])
             log2 == IF r.api_calls = 0 THEN api_log
                     ELSE api_log \o [k \in 1..r.api_calls |-> <<stat_data[i].id, apis[i]>>]
         IN IF r.out.kind = "raise"
            THEN [out |-> r.out, api_log |-> log2]
            ELSE hdp_arrange(stat_data, i + 1, apis, Append(posting_data, r.out.val), log2)

\* historic_data_pull.py:178-203
hdp_arrange_posting_data(stat_data, apis) == hdp_arrange(stat_data, 1, apis, <<>>, <<>>)

\* arrange_posting_data of historic_data_pull.py on self.empl_stat_data, with
\* the directory answering as it does to main.py.
HistoricArrangePostingData ==
    /\ hist_posting = NoPosting
    /\ empl_stat_data # <<>>
    /\ \E apis \in Directory(empl_stat_data) :
          /\ posting.done => apis = posting.apis
          /\ LET r == hdp_arrange_posting_data(empl_stat_data, apis) IN
             hist_posting' = [done |-> TRUE, apis |-> apis, out |-> r.out,
                              api_log |-> r.api_log]
    /\ UNCHANGED <<empl, ret, fs, calls, last, written, empl_stat_data, posting,
                   conc, logger, sheet>>

(***************************************************************************)
(* Credential Vault (src/configs/crypter.py).                              *)
(*                                                                         *)
(* A Fernet key is modelled by the number of the generate_key() call that  *)
(* made it (0: a key the program did not make); a Fernet token by the key  *)
(* it was sealed under, its IV, the plaintext bytes and whether its bytes  *)
(* are still the ones encrypt() produced.  Key and token are base64 text:  *)
(* decode('UTF-8') and encode() change the Python type and not the         *)
(* payload.  The secret is text: encode() and decode("utf-8") are UTF-8.   *)
(***************************************************************************)
Names == { <<"a">>, <<"b">>, <<"a","_","k","e","y">> }

\* Secrets as tuples of code points: "" and "Aé€".
Secrets == { <<>>, <<65, 233, 8364>> }

Paths == {"configs/config.json", "other.json"}

\* crypter.py:82 and 120  f"{name}_key"
key_name(name) == name \o <<"_","k","e","y">>

\* crypter.py:83 and 121  f"{name}_stoken"
stoken_name(name) == name \o <<"_","s","t","o","k","e","n">>

\* The field name the documentation gives (crypter.py:18, 78, 114).
token_name(name) == name \o <<"_","t","o","k","e","n">>

\* str.encode() of one code point (below U+10000).
Utf8Char(cp) ==
    IF cp < 128 THEN <<cp>>
    ELSE IF cp < 2048 THEN <<192 + (cp \div 64), 128 + (cp % 64)>>
    ELSE <<224 + (cp \div 4096), 128 + ((cp \div 64) % 64), 128 + (cp % 64)>>

\* crypter.py:46  secret_message.encode()
RECURSIVE Utf8Encode(_)
Utf8Encode(s) ==
    IF s = <<>> THEN <<>> ELSE Utf8Char(Head(s)) \o Utf8Encode(Tail(s))

\* crypter.py:68  .decode("utf-8").  It is only applied to the plaintext of a
\* token that passed authentication, which is the output of Utf8Encode; on a
\* truncated sequence the tail is dropped.
RECURSIVE Utf8Decode(_)
Utf8Decode(b) ==
    IF b = <<>> THEN <<>>
    ELSE IF b[1] < 128 THEN <<b[1]>> \o Utf8Decode(Tail(b))
    ELSE IF b[1] < 224 /\ Len(b) >= 2
         THEN <<(b[1] - 192) * 64 + (b[2] - 128)>> \o Utf8Decode(SubSeq(b, 3, Len(b)))
    ELSE IF Len(b) >= 3
         THEN <<(b[1] - 224) * 4096 + (b[2] - 128) * 64 + (b[3] - 128)>>
              \o Utf8Decode(SubSeq(b, 4, Len(b)))
    ELSE <<>>

KeyBytes(k) == [what |-> "key", ty |-> "bytes", k |-> k, iv |-> 0, pt |-> <<>>,
                intact |-> TRUE]
TokenBytes(k, iv, pt) == [what |-> "token", ty |-> "bytes", k |-> k, iv |-> iv,
                          pt |-> pt, intact |-> TRUE]

\* bytes.decode('UTF-8') and str.encode() of base64 text.
AsStr(v) == [v EXCEPT !.ty = "str"]
AsBytes(v) == [v EXCEPT !.ty = "bytes"]

\* Mutant of encrypt: the key handed back is generated anew after the
\* message was sealed.
encrypt_returning_new_key(secret_message, n) ==
    LET secret_stoken == Utf8Encode(secret_message)
        key == KeyBytes(0 - n)
    IN <<key, TokenBytes(n, n, secret_stoken)>>

\* Mutant of encrypt: one key, made by the first call, seals every message.
encrypt_fixed_key(secret_message, n) ==
    LET secret_stoken == Utf8Encode(secret_message)
        key == KeyBytes(1)
    IN <<key, TokenBytes(1, n, secret_stoken)>>

\* crypter.py:43-51.  n numbers this call: Fernet.generate_key() and the IV
\* are fresh random bytes.
encrypt(secret_message, n) ==
    LET secret_stoken == Utf8Encode(secret_message)
        key == KeyBytes(n)
    IN <<key, TokenBytes(n, n, secret_stoken)>>

\* crypter.py:53-69
decrypt(key, stoken) ==
    LET tok == IF stoken.ty # "bytes" THEN AsBytes(stoken) ELSE stoken IN
    IF key.what # "key" THEN Raise("ValueError")
    ELSE IF tok.what # "token" \/ tok.k # key.k \/ ~tok.intact
         THEN Raise("InvalidToken")
         ELSE Return(Utf8Decode(tok.pt))

\* The names bound in the module's namespace (crypter.py:33-41, 43, 53, 71, 110).
ModuleGlobals == {"Fernet", "os", "json", "Path", "configs", "Union",
                  "setup_logger", "logging", "logger",
                  "encrypt", "decrypt", "encrypt_to_config", "decrypt_from_config"}

\* The store file: absent, not JSON (which an empty file is), or a JSON object.
Absent == [kind |-> "absent", obj |-> <<>>]
Malformed == [kind |-> "malformed", obj |-> <<>>]
Object(o) == [kind |-> "object", obj |-> o]

\* Mutant of Update: the new record replaces the loaded config.
UpdateReplacing(config, data) == data

\* dict.update (crypter.py:101)
Update(config, data) ==
    [f \in (DOMAIN config) \cup (DOMAIN data) |->
        IF f \in DOMAIN data THEN data[f] ELSE config[f]]

\* The dict literal {a: x, b: y} (crypter.py:86-89): the later entry wins.
Dict2(a, x, b, y) == [f \in {a, b} |-> IF f = b THEN y ELSE x]

\* crypter.py:91-99: the config encrypt_to_config starts from.
LoadOrEmpty(file) == IF file.kind = "object" THEN file.obj ELSE <<>>

\* crypter.py:71-108: the file written and the way the call ends.
encrypt_to_config(secret_string, name, file, n) ==
    LET kt == encrypt(secret_string, n)
        data == Dict2(key_name(name), AsStr(kt[1]), stoken_name(name), AsStr(kt[2]))
        config == Update(LoadOrEmpty(file), data)
    IN [file |-> Object(config),
        \* line 106: log.info(...) inside the try, line 108: log.error(...)
        \* inside its handler
        out |-> IF "log" \in ModuleGlobals THEN Return(<<>>) ELSE Raise("NameError")]

\* crypter.py:110-134
decrypt_from_config(name, file) ==
    IF file.kind = "absent" THEN Raise("FileNotFoundError")
    ELSE IF file.kind = "malformed" THEN Raise("JSONDecodeError")
    ELSE LET config == file.obj IN
         IF key_name(name) \notin DOMAIN config \/ stoken_name(name) \notin DOMAIN config
         THEN Raise("KeyError")
         ELSE decrypt(AsBytes(config[key_name(name)]), config[stoken_name(name)])

\* Records that may be in the store before the program runs: one under the
\* name "a", sealed under key 0, whole or damaged.
OldKey == AsStr(KeyBytes(0))
OtherKey == AsStr(KeyBytes(-1))
OldToken == AsStr(TokenBytes(0, 0, Utf8Encode(<<65>>)))
FlippedToken == [OldToken EXCEPT !.intact = FALSE]

InitialFiles ==
    { Absent, Malformed, Object(<<>>),
      Object(Dict2(key_name(<<"a">>), OldKey, stoken_name(<<"a">>), OldToken)),
      Object(Dict2(key_name(<<"a">>), OtherKey, stoken_name(<<"a">>), OldToken)),
      Object(Dict2(key_name(<<"a">>), OldKey, stoken_name(<<"a">>), FlippedToken)),
      Object(Dict2(key_name(<<"a">>), OldKey, key_name(<<"a">>), OldKey)),
      Object(Dict2(stoken_name(<<"a">>), OldToken, stoken_name(<<"a">>), OldToken)) }

NoRecord == [set |-> FALSE, key |-> OldKey, stoken |-> OldKey]

NoVaultCall == [op |-> "none", name |-> <<>>, path |-> "", secret |-> <<>>,
                out |-> Return(<<>>), pre |-> Absent,
                prior |-> [is |-> FALSE, secret |-> <<>>, kind |-> ""]]

\* A call encrypt_to_config(secret_string, name, file_path).
EncryptToConfig ==
    /\ calls < MaxCalls
    /\ \E secret_string \in Secrets, name \in Names, file_path \in Paths :
          LET n == calls + 1
              r == encrypt_to_config(secret_string, name, fs[file_path], n)
              kt == encrypt(secret_string, n)
          IN /\ fs' = [fs EXCEPT ![file_path] = r.file]
             /\ calls' = n
             /\ last' = [op |-> "encrypt_to_config", name |-> name,
                         path |-> file_path, secret |-> secret_string,
                         out |-> r.out, pre |-> fs[file_path],
                         prior |-> [is |-> FALSE, secret |-> <<>>, kind |-> ""]]
             /\ written' = [written EXCEPT ![<<file_path, name>>] =
                               [set |-> TRUE, key |-> AsStr(kt[1]),
                                stoken |-> AsStr(kt[2])]]
    /\ UNCHANGED <<empl, ret, arrangeVars, conc, logger, sheet>>

\* A call decrypt_from_config(name, file_path).
DecryptFromConfig ==
    /\ \E name \in Names, file_path \in Paths :
          last' = [op |-> "decrypt_from_config", name |-> name,
                   path |-> file_path, secret |-> <<>>,
                   out |-> decrypt_from_config(name, fs[file_path]),
                   pre |-> fs[file_path],
                   prior |-> IF /\ last.op = "encrypt_to_config"
                                /\ last.name = name
                                /\ last.path = file_path
                             THEN [is |-> TRUE, secret |-> last.secret,
                                   kind |-> last.out.kind]
                             ELSE [is |-> FALSE, secret |-> <<>>, kind |-> ""]]
    /\ UNCHANGED <<empl, ret, fs, calls, written, arrangeVars, conc, logger, sheet>>

(***************************************************************************)
(* encrypt_to_config step by step (src/configs/crypter.py:82-108), for two *)
(* calls on one store file and a decrypt_from_config beside them.          *)
(*                                                                         *)
(* The file is what a reader would load from it (absent, not JSON, or a    *)
(* JSON object) and the number of characters it holds.  open(file_path,    *)
(* 'w') empties the file; json.dump writes into the file object's buffer,  *)
(* which reaches the file when the with block is left, as one write at the *)
(* position of this file object, 0.                                        *)
(***************************************************************************)
Writers == {1, 2}

\* Characters of a stored value: a Fernet key is 44 characters of base64, a
\* token of a plaintext shorter than 16 bytes is 100.
ValueLen(v) == IF v.what = "key" THEN 44 ELSE 100

\* Characters json.dump(config, f, indent=4) writes for the fields F of config:
\* per field the indent, the quoted name, ': ', the quoted value and ',\n'
\* (or '\n' after the last).
RECURSIVE ItemsLen(_, _)
ItemsLen(config, F) ==
    IF F = {} THEN 0
    ELSE LET f == CHOOSE g \in F : TRUE
         IN 12 + Len(f) + ValueLen(config[f]) + ItemsLen(config, F \ {f})

\* crypter.py:104: the length of the text written; '{}' for the empty dict,
\* else '{\n', the items and '}'.
JsonLen(config) == 2 + ItemsLen(config, DOMAIN config)

FileLen(f) == IF f.kind = "object" THEN JsonLen(f.obj) ELSE 0

\* crypter.py:103-105: the buffered text written at position 0 of a file that
\* holds len characters.  A longer file keeps its tail behind the text, and
\* json.load refuses a JSON value followed by more text.
WriteAtStart(config, len) ==
    IF JsonLen(config) >= len
    THEN [file |-> Object(config), len |-> JsonLen(config)]
    ELSE [file |-> Malformed, len |-> len]

IdleWriter == [pc |-> "idle", name |-> <<>>, secret |-> <<>>, data |-> <<>>,
               config |-> <<>>]

NoView == [is |-> FALSE, name |-> <<>>, view |-> Absent, out |-> Return(<<>>),
           writing |-> {}]

NoConc == [on |-> FALSE, init |-> Absent, file |-> Absent, len |-> 0,
           w |-> [i \in Writers |-> IdleWriter], lastw |-> 0, seen |-> NoView]

ConcIdle == conc = NoConc

\* The stores the two calls start from: none, {} and one holding a record "a".
ConcInitialFiles ==
    { Absent, Object(<<>>),
      Object(Dict2(key_name(<<"a">>), OldKey, stoken_name(<<"a">>), OldToken)) }

concOthers == <<empl, ret, fs, calls, last, written, arrangeVars, logger, sheet>>

\* crypter.py:82-89: writer i enters encrypt_to_config and seals the secret.
ConcEncrypt ==
    /\ conc.on
    /\ \E i \in Writers, secret_string \in Secrets, name \in Names :
          /\ conc.w[i].pc = "idle"
          /\ LET kt == encrypt(secret_string, i) IN
             conc' = [conc EXCEPT !.w[i] =
                         [pc |-> "load", name |-> name, secret |-> secret_string,
                          data |-> Dict2(key_name(name), AsStr(kt[1]),
                                         stoken_name(name), AsStr(kt[2])),
                          config |-> <<>>]]
    /\ UNCHANGED concOthers

\* crypter.py:91-101: writer i loads the store and merges its record.
ConcLoad ==
    /\ conc.on
    /\ \E i \in Writers :
          /\ conc.w[i].pc = "load"
          /\ conc' = [conc EXCEPT !.w[i].pc = "open",
                                  !.w[i].config = Update(LoadOrEmpty(conc.file),
                                                         conc.w[i].data)]
    /\ UNCHANGED concOthers

\* crypter.py:103: open(file_path, 'w') creates or empties the file.
ConcOpen ==
    /\ conc.on
    /\ \E i \in Writers :
          /\ conc.w[i].pc = "open"
          /\ conc' = [conc EXCEPT !.w[i].pc = "dump", !.file = Malformed, !.len = 0]
    /\ UNCHANGED concOthers

\* crypter.py:104-108: json.dump and the end of the with block (the NameError
\* of line 106 leaves the block, which closes the file).
ConcDump ==
    /\ conc.on
    /\ \E i \in Writers :
          /\ conc.w[i].pc = "dump"
          /\ LET r == WriteAtStart(conc.w[i].config, conc.len) IN
             conc' = [conc EXCEPT !.w[i].pc = "done", !.file = r.file,
                                  !.len = r.len, !.lastw = i]
    /\ UNCHANGED concOthers

\* crypter.py:110-134: a decrypt_from_config call beside the writers; it
\* loads the file as it is at that moment.
ConcRead ==
    /\ conc.on
    /\ ~conc.seen.is
    /\ \E name \in Names :
          conc' = [conc EXCEPT !.seen =
                      [is |-> TRUE, name |-> name, view |-> conc.file,
                       out |-> decrypt_from_config(name, conc.file),
                       writing |-> { i \in Writers : conc.w[i].pc # "idle" }]]
    /\ UNCHANGED concOthers

(***************************************************************************)
(* setup_logger (src/configs/setup_logger.py).                             *)
(*                                                                         *)
(* logging.getLogger(name) returns one Logger object per name; a handler   *)
(* object is told apart by the call that made it.                          *)
(***************************************************************************)
LoggerNames == {"main", "crypter"}

Levels == {"DEBUG", "INFO"}

\* A file_path whose directory cannot be made or whose file cannot be opened.
Unwritable == "/proc/none/log.log"

LogPaths == {"configs/log.log", Unwritable}

\* The log_to_file argument: None, True or False.
LogToFile == {"None", "True", "False"}

Handler(kind, level, path, by) == [kind |-> kind, level |-> level, path |-> path, by |-> by]

\* A handler put on the logger by other code before setup_logger ran.
Foreign == Handler("foreign", "NOTSET", "", 0)

NewLogger(handlers) == [level |-> "NOTSET", propagate |-> TRUE,
                        handlers |-> handlers, configured |-> FALSE]

\* Mutant of AlreadyConfigured: the guard is never taken.
NeverConfigured(lg) == FALSE

\* setup_logger.py:56  getattr(logger, "_configured", False)
AlreadyConfigured(lg) == lg.configured

\* setup_logger.py:39-108 on the Logger lg of that name.  env is
\* ENV_LOG_TO_FILE, by numbers the call.  Path.mkdir and the file handler's
\* constructor raise OSError on a path that cannot be written.
setup_logger(lg, name, level, log_to_file, file_path, env, by) ==
    IF AlreadyConfigured(lg)
    THEN [logger |-> lg, out |-> Return(name)]
    ELSE LET console == Handler("console", level, "stdout", by)
             l1 == [level |-> level, propagate |-> FALSE,
                    handlers |-> <<console>>, configured |-> FALSE]
             to_file == IF log_to_file = "None" THEN env ELSE log_to_file = "True"
         IN IF ~to_file
            THEN [logger |-> [l1 EXCEPT !.configured = TRUE], out |-> Return(name)]
            ELSE IF file_path = Unwritable
                 THEN [logger |-> l1, out |-> Raise("OSError")]
                 ELSE [logger |-> [l1 EXCEPT
                                     !.handlers = Append(@, Handler("file", level,
                                                                    file_path, by)),
                                     !.configured = TRUE],
                       out |-> Return(name)]

NoSnapshot == [is |-> FALSE, level |-> "NOTSET", handlers |-> <<>>]

NoSetup == [name |-> "", nth |-> 0, out |-> Return(""), before |-> NewLogger(<<>>)]

NoLogger == [on |-> FALSE, env |-> FALSE,
             obj |-> [n \in LoggerNames |-> NewLogger(<<>>)],
             calls |-> 0,
             nth |-> [n \in LoggerNames |-> 0],
             first |-> [n \in LoggerNames |-> NoSnapshot],
             completed |-> [n \in LoggerNames |-> NoSnapshot],
             last |-> NoSetup]

LoggerIdle == logger = NoLogger

\* A call setup_logger(name, level, log_to_file, file_path).  first keeps
\* what the first call with the name left on the logger, completed what the
\* first call that returned left.
SetupLogger ==
    /\ logger.on
    /\ logger.calls < MaxSetups
    /\ \E name \in LoggerNames, level \in Levels, log_to_file \in LogToFile,
          file_path \in LogPaths :
          LET by == logger.calls + 1
              r == setup_logger(logger.obj[name], name, level, log_to_file,
                                file_path, logger.env, by)
              snap == [is |-> TRUE, level |-> r.logger.level,
                       handlers |-> r.logger.handlers]
          IN logger' = [logger EXCEPT
                 !.obj[name] = r.logger,
                 !.calls = by,
                 !.nth[name] = @ + 1,
                 !.first[name] = IF @.is THEN @ ELSE snap,
                 !.completed[name] = IF @.is \/ r.out.kind # "return" THEN @ ELSE snap,
                 !.last = [name |-> name, nth |-> logger.nth[name] + 1,
                           out |-> r.out, before |-> logger.obj[name]]]
    /\ UNCHANGED <<empl, ret, fs, calls, last, written, arrangeVars, conc, sheet>>

(***************************************************************************)
(* The sheet client (src/smartsheet_grid.py): delete_all_rows and          *)
(* post_new_rows.  A sheet is the sequence of its row ids and the set of   *)
(* its column titles; the requests sent to the service are logged in the   *)
(* order they are sent.  The grid has its token set (smartsheet_grid.py:   *)
(* 58-65) and every request is answered.                                   *)
(***************************************************************************)
\* smartsheet_grid.py:178  len(row_list_del) > 199
ChunkLimit == 199

Request(op, ids, n) == [op |-> op, ids |-> ids, n |-> n]

\* Mutant of ChunkFull: the list is sent one row later.
ChunkFullOneLate(len_row_list_del) == len_row_list_del > ChunkLimit + 1

\* smartsheet_grid.py:178, on len(row_list_del)
ChunkFull(len_row_list_del) == len_row_list_del > ChunkLimit

\* smartsheet_grid.py:174-183: the loop over self.df['id'] from row i on,
\* where row_list_del is empty.  After row j is appended the list holds the
\* rows i..j; they are sent at the first j at which the list is full (line
\* 178-180), and when it does not fill up again the rows that remain are sent
\* after the loop (line 182-183).
RECURSIVE delete_loop(_, _, _)
delete_loop(ids, i, requests) ==
    IF i > Len(ids)
    THEN requests
    ELSE LET full == { j \in i..Len(ids) : ChunkFull(j - i + 1) }
         IN IF full = {}
            THEN Append(requests, Request("delete_rows", SubSeq(ids, i, Len(ids)), 0))
            ELSE LET j == CHOOSE m \in full : \A o \in full : m <= o
                 IN delete_loop(ids, j + 1,
                                Append(requests, Request("delete_rows", SubSeq(ids, i, j), 0)))

\* smartsheet_grid.py:80-117: get_sheet, then get_column_df.
fetch_content == << Request("get_sheet", <<>>, 0), Request("get_columns", <<>>, 0) >>

\* smartsheet_grid.py:169-183: the requests sent for a sheet holding rows.
delete_all_rows(rows) == fetch_content \o delete_loop(rows, 1, <<>>)

\* smartsheet_grid.py:184-212: the requests sent and the way the call ends.
\* posting_data[0] raises IndexError on an empty list; prep_post raises
\* IndexError (.tolist()[0], line 168) on a title the sheet has no column for.
post_new_rows(posting_data, post_fresh, rows, columns) ==
    IF Len(posting_data) = 0
    THEN [requests |-> <<>>, out |-> Raise("IndexError")]
    ELSE LET column_title_list == DOMAIN posting_data[1]
             prep_post == << Request("get_columns", <<>>, 0) >>
         IN IF ~(column_title_list \subseteq columns)
            THEN [requests |-> prep_post, out |-> Raise("IndexError")]
            ELSE [requests |-> prep_post
                               \o (IF post_fresh THEN delete_all_rows(rows) ELSE <<>>)
                               \o << Request("add_rows", <<>>, Len(posting_data)) >>,
                  out |-> Return(NoValue)]

\* The service: the rows of the sheet after the requests, rows added by
\* add_rows getting ids above the ones in use.
RECURSIVE Serve(_, _, _, _)
Serve(rows, requests, k, next_id) ==
    IF k > Len(requests) THEN rows
    ELSE LET rq == requests[k] IN
         IF rq.op = "delete_rows"
         THEN LET gone == { rq.ids[j] : j \in 1..Len(rq.ids) }
              IN Serve(SelectSeq(rows, LAMBDA id : id \notin gone),
                       requests, k + 1, next_id)
         ELSE IF rq.op = "add_rows"
         THEN Serve(rows \o [j \in 1..rq.n |-> next_id + j], requests, k + 1,
                    next_id + rq.n)
         ELSE Serve(rows, requests, k + 1, next_id)

\* A posting record as arrange_posting_data makes it.
GridRow(id) == [f \in PostingKeys |-> IF f = "Id" THEN id ELSE EmptyString]

PostingData == { <<>>, << GridRow("1") >>, << GridRow("1"), GridRow("2") >> }

\* The columns of the sheet: with a column for every key, or without 'Id'.
ColumnSets == { PostingKeys \cup {"Name"}, PostingKeys \ {"Id"} }

NoSheet == [on |-> FALSE, fetched |-> <<>>, rows |-> <<>>, columns |-> {},
            call |-> "none", post_fresh |-> FALSE, posted |-> 0,
            requests |-> <<>>, out |-> Return(NoValue)]

SheetIdle == sheet = NoSheet

sheetOthers == <<empl, ret, fs, calls, last, written, arrangeVars, conc, logger>>

\* A call delete_all_rows().
DeleteAllRows ==
    /\ sheet.on /\ sheet.call = "none"
    /\ LET requests == delete_all_rows(sheet.rows) IN
       sheet' = [sheet EXCEPT !.call = "delete_all_rows",
                              !.requests = requests,
                              !.rows = Serve(sheet.rows, requests, 1, Len(sheet.rows)),
                              !.out = Return(NoValue)]
    /\ UNCHANGED sheetOthers

\* A call post_new_rows(posting_data, post_fresh).
PostNewRows ==
    /\ sheet.on /\ sheet.call = "none"
    /\ \E posting_data \in PostingData, post_fresh \in BOOLEAN :
          LET r == post_new_rows(posting_data, post_fresh, sheet.rows, sheet.columns) IN
          sheet' = [sheet EXCEPT !.call = "post_new_rows",
                                 !.post_fresh = post_fresh,
                                 !.posted = Len(posting_data),
                                 !.requests = r.requests,
                                 !.rows = Serve(sheet.rows, r.requests, 1, Len(sheet.rows)),
                                 !.out = r.out]
    /\ UNCHANGED sheetOthers

(***************************************************************************)
(* Specifications.                                                         *)
(***************************************************************************)
ReconIdle == ret = NoCall
VaultIdle ==
    /\ fs = [p \in Paths |-> Absent]
    /\ calls = 0
    /\ last = NoVaultCall
    /\ written = [pn \in Paths \X Names |-> NoRecord]
EmplIdle == empl = [id |-> "1", data |-> <<>>]

ReconInit ==
    /\ \E n \in 0..MaxEvents : \E e \in EventSeqs(n) : empl = [id |-> "1", data |-> e]
    /\ ReconIdle
    /\ VaultIdle
    /\ ArrangeIdle /\ ConcIdle /\ LoggerIdle /\ SheetIdle

ReconNext == CallGetOriginalHireDate \/ CallGetDate

ReconSpec == ReconInit /\ [][ReconNext]_vars

VaultInit ==
    /\ \E p \in Paths, f \in InitialFiles :
          fs = [q \in Paths |-> IF q = p THEN f ELSE Absent]
    /\ calls = 0
    /\ last = NoVaultCall
    /\ written = [pn \in Paths \X Names |-> NoRecord]
    /\ EmplIdle
    /\ ReconIdle
    /\ ArrangeIdle /\ ConcIdle /\ LoggerIdle /\ SheetIdle

VaultNext == EncryptToConfig \/ DecryptFromConfig

VaultSpec == VaultInit /\ [][VaultNext]_vars

\* arrange_posting_data over the records pullnclean_employement_status_table
\* left in self.empl_stat_data.
ArrangeInit ==
    /\ \E n \in 0..MaxEvents : \E e \in EventSeqs(n) :
          empl_stat_data \in Rosters([id |-> "1", data |-> e])
    /\ posting = NoPosting
    /\ hist_posting = NoPosting
    /\ EmplIdle
    /\ ReconIdle
    /\ VaultIdle
    /\ ConcIdle /\ LoggerIdle /\ SheetIdle

ArrangeNext == ArrangePostingData

ArrangeSpec == ArrangeInit /\ [][ArrangeNext]_vars

\* A store that is missing, empty (an empty file is not JSON) or {}.
FreshFiles == { Absent, Malformed, Object(<<>>) }

\* The Vault on a store that starts missing or empty.
VaultFreshInit ==
    /\ \E p \in Paths, f \in FreshFiles :
          fs = [q \in Paths |-> IF q = p THEN f ELSE Absent]
    /\ calls = 0
    /\ last = NoVaultCall
    /\ written = [pn \in Paths \X Names |-> NoRecord]
    /\ EmplIdle
    /\ ReconIdle
    /\ ArrangeIdle /\ ConcIdle /\ LoggerIdle /\ SheetIdle

VaultFreshSpec == VaultFreshInit /\ [][VaultNext]_vars

\* Two encrypt_to_config calls and one decrypt_from_config on one store file.
VaultConcInit ==
    /\ \E f \in ConcInitialFiles :
          conc = [NoConc EXCEPT !.on = TRUE, !.init = f, !.file = f,
                                !.len = FileLen(f)]
    /\ EmplIdle
    /\ ReconIdle
    /\ VaultIdle
    /\ ArrangeIdle /\ LoggerIdle /\ SheetIdle

VaultConcNext == ConcEncrypt \/ ConcLoad \/ ConcOpen \/ ConcDump \/ ConcRead

VaultConcSpec == VaultConcInit /\ [][VaultConcNext]_vars

\* The loggers before the first setup_logger call: as logging made them, or
\* with a handler other code put on them; ENV_LOG_TO_FILE as the environment
\* set it at import.
LoggerInit ==
    /\ \E env \in BOOLEAN, pre \in [LoggerNames -> { <<>>, <<Foreign>> }] :
          logger = [NoLogger EXCEPT !.on = TRUE, !.env = env,
                       !.obj = [n \in LoggerNames |-> NewLogger(pre[n])]]
    /\ EmplIdle
    /\ ReconIdle
    /\ VaultIdle
    /\ ArrangeIdle /\ ConcIdle /\ SheetIdle

LoggerNext == SetupLogger

LoggerSpec == LoggerInit /\ [][LoggerNext]_vars

\* A sheet of 0..MaxRows rows, with ids 1, 2, ... in sheet order.
GridInit ==
    /\ \E n \in 0..MaxRows, columns \in ColumnSets :
          sheet = [NoSheet EXCEPT !.on = TRUE, !.fetched = [i \in 1..n |-> i],
                                  !.rows = [i \in 1..n |-> i], !.columns = columns]
    /\ EmplIdle
    /\ ReconIdle
    /\ VaultIdle
    /\ ArrangeIdle /\ ConcIdle /\ LoggerIdle

GridNext == DeleteAllRows \/ PostNewRows

GridSpec == GridInit /\ [][GridNext]_vars

\* main.py and historic_data_pull.py, each run on the same employee record.
PairInit ==
    /\ \E n \in 0..MaxEvents : \E e \in EventSeqs(n) :
          empl_stat_data = << [id |-> "1", data |-> e] >>
    /\ posting = NoPosting
    /\ hist_posting = NoPosting
    /\ EmplIdle
    /\ ReconIdle
    /\ VaultIdle
    /\ ConcIdle /\ LoggerIdle /\ SheetIdle

PairNext == ArrangePostingData \/ HistoricArrangePostingData

PairSpec == PairInit /\ [][PairNext]_vars

Init == ReconInit \/ VaultInit \/ ArrangeInit \/ VaultConcInit \/ LoggerInit \/ GridInit

Next == ReconNext \/ VaultNext \/ ArrangeNext \/ VaultConcNext \/ LoggerNext \/ GridNext
           \/ PairNext

Spec == Init /\ [][Next]_vars

(***************************************************************************)
(* Properties of the Reconstructor (ReconSpec).                            *)
(***************************************************************************)
data == empl.data

\* Positions of the events whose status contains "erminated".
TermPositions == { i \in 1..Len(data) : Contains(erminated, data[i].employmentStatus) }

\* Number of termination events strictly before position i.
TermsBefore(i) == Cardinality({ j \in TermPositions : j < i })

Least(S) == CHOOSE i \in S : \A j \in S : i <= j

OriginalHireCall ==
    \/ ret.fn = "get_original_hire_date"
    \/ ret.fn = "get_date" /\ ret.search_value = "Original Hire"

\* hireDate: the first event's date, or the directory's answer for the sentinel.
HireDate == IF data[1].date = SENTINEL THEN ret.api ELSE data[1].date

\* C2: on a record with at least one event, get_original_hire_date returns the
\* second event's date when a second event exists, its status is not exactly
\* "Terminated" and its date is strictly earlier than hireDate, and returns
\* hireDate in every other case, a one-event record included.
C2_OriginalHire ==
    (OriginalHireCall /\ Len(data) >= 1) =>
        ret.out = IF /\ Len(data) >= 2
                     /\ data[2].employmentStatus # Terminated
                     /\ data[2].date < HireDate
                  THEN Return(data[2].date)
                  ELSE Return(HireDate)

\* C2 witness: a second, earlier event that is not "Terminated" replaced a
\* real first date.
C2_Witness ==
    /\ ret.fn = "get_original_hire_date"
    /\ Len(data) >= 2
    /\ data[1].date = 2
    /\ data[2] = Event(1, Active)
    /\ ret.out = Return(1)

\* C3: get_date(record, N, "Terminated") with N >= 1 returns the date of the
\* N-th event, in sequence order, whose status contains "erminated"
\* ("Terminated" and "Re-Terminated" alike), and "" when there is none.
C3_NthTermination ==
    (ret.fn = "get_date" /\ ret.search_value = "Terminated" /\ ret.param_index >= 1) =>
        LET nth == { i \in TermPositions : TermsBefore(i) + 1 = ret.param_index } IN
        IF nth # {}
        THEN ret.out = Return(data[Least(nth)].date)
        ELSE ret.out = Return(EmptyString)

\* C3 witness: the second termination is a "Re-Terminated" event that follows
\* a "Terminated" and an "Active" one, and its date is returned.
C3_Witness ==
    /\ ret.fn = "get_date" /\ ret.search_value = "Terminated" /\ ret.param_index = 2
    /\ Len(data) >= 4
    /\ data[1].employmentStatus = Terminated
    /\ data[2].employmentStatus = Active
    /\ data[3].employmentStatus = ReTerminated
    /\ ret.out = Return(data[3].date)

\* C4 as claimed: get_date(record, N, "Hire") with N >= 1 returns the date of
\* the first non-termination event that comes after the N-th termination,
\* whatever lies in between, whenever such an event exists.
C4_FirstAfterNth ==
    (ret.fn = "get_date" /\ ret.search_value = "Hire" /\ ret.param_index >= 1) =>
        LET after == { i \in (1..Len(data)) \ TermPositions :
                          TermsBefore(i) >= ret.param_index } IN
        after # {} => ret.out = Return(data[Least(after)].date)

\* C4 amended: get_date(record, N, "Hire") with N >= 1 returns the date of the
\* first non-termination event that exactly N termination events precede, and
\* "" when there is none (so also when the N-th termination is directly
\* followed by the next one).
C4_FirstWithExactlyN ==
    (ret.fn = "get_date" /\ ret.search_value = "Hire" /\ ret.param_index >= 1) =>
        LET exact == { i \in (1..Len(data)) \ TermPositions :
                          TermsBefore(i) = ret.param_index } IN
        IF exact # {}
        THEN ret.out = Return(data[Least(exact)].date)
        ELSE ret.out = Return(EmptyString)

\* C4 witness: two terminations in a row, then an "Active" event: the query
\* for the hire after the first termination finds nothing.
C4_Witness ==
    /\ ret.fn = "get_date" /\ ret.search_value = "Hire" /\ ret.param_index = 1
    /\ Len(data) = 3
    /\ data[1].employmentStatus = Terminated
    /\ data[2].employmentStatus = Terminated
    /\ data[3].employmentStatus = Active
    /\ ret.out = Return(EmptyString)

\* C9 as claimed: on a record with no events every Reconstructor operation
\* fails and none returns a value.
C9_EmptyRecordFails ==
    (ret.fn # "none" /\ Len(data) = 0) => ret.out.kind = "raise"

file == fs[last.path]

Fields(name) == {key_name(name), stoken_name(name)}

\* C1 as claimed: decrypt_from_config(n, p) called right after
\* encrypt_to_config(s, n, p) returns s, and that encrypt_to_config call
\* completed normally.
C1_RoundTrip ==
    (last.op = "decrypt_from_config" /\ last.prior.is) =>
        /\ last.out = Return(last.prior.secret)
        /\ last.prior.kind = "return"

\* C5 as claimed: after encrypt_to_config(secret, name, path) the store holds
\* the record under the fields name_key and name_token.
C5_FieldNames ==
    (last.op = "encrypt_to_config") =>
        /\ file.kind = "object"
        /\ key_name(last.name) \in DOMAIN file.obj
        /\ token_name(last.name) \in DOMAIN file.obj

\* C6 as claimed: on a missing or malformed store file encrypt_to_config
\* returns normally and leaves a store holding exactly the two fields of the
\* new record.
C6_MissingOrMalformed ==
    (last.op = "encrypt_to_config" /\ last.pre.kind \in {"absent", "malformed"}) =>
        /\ last.out.kind = "return"
        /\ file.kind = "object"
        /\ DOMAIN file.obj = Fields(last.name)

\* C7: encrypt_to_config(secret, n, path) on a well-formed store sets both
\* fields of n to the key and ciphertext generated in this call and leaves
\* every other field as it was; two distinct names share no field; and at any
\* time each name holds the record of the last call made with it.
C7_OverwriteAndFrame ==
    /\ (last.op = "encrypt_to_config" /\ last.pre.kind = "object") =>
          LET rec == written[<<last.path, last.name>>] IN
          /\ file.kind = "object"
          /\ rec.set /\ rec.key.k = calls /\ rec.stoken.k = calls
          /\ file.obj[key_name(last.name)] = rec.key
          /\ file.obj[stoken_name(last.name)] = rec.stoken
          /\ DOMAIN file.obj = (DOMAIN last.pre.obj) \cup Fields(last.name)
          /\ \A f \in (DOMAIN last.pre.obj) \ Fields(last.name) :
                file.obj[f] = last.pre.obj[f]
    /\ \A n \in Names, m \in Names : n # m => Fields(n) \cap Fields(m) = {}
    /\ \A p \in Paths, n \in Names :
          written[<<p, n>>].set =>
              /\ fs[p].kind = "object"
              /\ Fields(n) \subseteq DOMAIN fs[p].obj
              /\ fs[p].obj[key_name(n)] = written[<<p, n>>].key
              /\ fs[p].obj[stoken_name(n)] = written[<<p, n>>].stoken

\* C7 witness: the second call overwrites the record that was stored under
\* "a" before the program ran, in a store that also holds the record the
\* first call wrote under "b".
C7_Witness ==
    /\ last.op = "encrypt_to_config" /\ last.name = <<"a">> /\ calls = 2
    /\ last.pre.kind = "object"
    /\ Fields(<<"a">>) \cup Fields(<<"b">>) \subseteq DOMAIN last.pre.obj
    /\ last.pre.obj[key_name(<<"a">>)] = OldKey
    /\ file.obj[key_name(<<"a">>)].k = 2
    /\ file.obj[key_name(<<"b">>)].k = 1

\* C8 as claimed: decrypt_from_config fails with FileNotFoundError when the
\* file is absent, with KeyError when the file exists and a field of the name
\* is absent, with InvalidToken when key and ciphertext do not match or the
\* ciphertext was altered, and returns the encrypted plaintext otherwise.
C8_FourOutcomes ==
    (last.op = "decrypt_from_config") =>
        LET pre == last.pre
            k == pre.obj[key_name(last.name)]
            t == pre.obj[stoken_name(last.name)]
        IN IF pre.kind = "absent" THEN last.out = Raise("FileNotFoundError")
           ELSE IF ~(Fields(last.name) \subseteq DOMAIN pre.obj)
                THEN last.out = Raise("KeyError")
           ELSE IF t.k # k.k \/ ~t.intact THEN last.out = Raise("InvalidToken")
           ELSE last.out = Return(Utf8Decode(t.pt))

(***************************************************************************)
(* Properties of arrange_posting_data (ArrangeSpec) and further properties *)
(* of the Reconstructor.                                                   *)
(***************************************************************************)
\* C20: get_original_hire_date never returns the sentinel "0000-00-00" when
\* the first event carries a real date, whatever the second event is.
C20_NeverSentinel ==
    (OriginalHireCall /\ Len(data) >= 1 /\ data[1].date # SENTINEL) =>
        ret.out # Return(SENTINEL)

Roster == 1..Len(empl_stat_data)

\* Number of api_original_hire_date calls made for the employee id.
LookupsOf(id) ==
    Cardinality({ k \in 1..Len(posting.api_log) : posting.api_log[k][1] = id })

FirstIsSentinel(e) == Len(e.data) >= 1 /\ e.data[1].date = SENTINEL

\* C11: while one employee's posting record is assembled,
\* api_original_hire_date is called exactly once when the first event's date
\* is the sentinel and not at all otherwise, so at most once per employee;
\* when it is called and the second event does not override, its result is
\* the returned 'HRIS Original Hire'.
C11_OneLookup ==
    posting.done =>
        /\ \A i \in Roster : LookupsOf(empl_stat_data[i].id) <= 1
        /\ posting.out.kind = "return" =>
             \A i \in Roster :
                LET e == empl_stat_data[i]
                    overrides == /\ Len(e.data) >= 2
                                 /\ e.data[2].employmentStatus # Terminated
                                 /\ e.data[2].date < posting.apis[i]
                IN /\ LookupsOf(e.id) = IF FirstIsSentinel(e) THEN 1 ELSE 0
                   /\ (FirstIsSentinel(e) /\ ~overrides) =>
                        /\ <<e.id, posting.apis[i]>> \in
                              { posting.api_log[k] : k \in 1..Len(posting.api_log) }
                        /\ posting.out.val[i]["HRIS Original Hire"] = posting.apis[i]

\* C11 witness: two records whose first date is the sentinel were arranged,
\* each with its own lookup, and the directory's answer 2 is the original hire
\* date of the record under study, whose second event is later.
C11_Witness ==
    /\ posting.done /\ posting.out.kind = "return"
    /\ Len(empl_stat_data) = 2
    /\ empl_stat_data[2].id = "1"
    /\ Len(empl_stat_data[2].data) >= 3
    /\ FirstIsSentinel(empl_stat_data[1]) /\ FirstIsSentinel(empl_stat_data[2])
    /\ posting.api_log = << <<"2", 1>>, <<"1", 2>> >>
    /\ posting.out.val[2]["HRIS Original Hire"] = 2

\* C12: arrange_posting_data builds the six lifecycle fields with a fixed
\* pairing ('HRIS Original Hire' from get_original_hire_date, then
\* (1, Terminated), (1, Hire), (2, Terminated), (2, Hire), (3, Terminated)),
\* all from the events of the same employee, one posting record per input
\* record and in input order; a record without events ends the run with the
\* IndexError of get_original_hire_date.
C12_FixedPairing ==
    posting.done =>
        IF \A i \in Roster : Len(empl_stat_data[i].data) >= 1
        THEN /\ posting.out.kind = "return"
             /\ Len(posting.out.val) = Len(empl_stat_data)
             /\ \A i \in Roster :
                   LET e == empl_stat_data[i]
                       rec == posting.out.val[i]
                       api == posting.apis[i]
                   IN /\ rec["Id"] = e.id
                      /\ rec["HRIS Original Hire"] = get_original_hire_date(e, api).out.val
                      /\ rec["HRIS Original Termination"] = get_date(e, 1, "Terminated", api).out.val
                      /\ rec["HRIS Rehire"] = get_date(e, 1, "Hire", api).out.val
                      /\ rec["HRIS Retermination"] = get_date(e, 2, "Terminated", api).out.val
                      /\ rec["HRIS Final Hire"] = get_date(e, 2, "Hire", api).out.val
                      /\ rec["HRIS Final Termination"] = get_date(e, 3, "Terminated", api).out.val
        ELSE posting.out = Raise("IndexError")

\* C12 witness: a companion and then an employee terminated three times were
\* arranged, in that order, and the six fields of the second posting record
\* are all filled, from that employee's events.
C12_Witness ==
    /\ posting.done /\ posting.out.kind = "return"
    /\ Len(posting.out.val) = 2
    /\ posting.out.val[1]["Id"] = "2" /\ posting.out.val[2]["Id"] = "1"
    /\ Len(empl_stat_data[2].data) = 5
    /\ [k \in 1..5 |-> empl_stat_data[2].data[k].employmentStatus]
          = << Terminated, Active, ReTerminated, Active, Terminated >>
    /\ posting.out.val[1]["HRIS Final Hire"] = EmptyString
    /\ posting.out.val[2]["HRIS Rehire"] = empl_stat_data[2].data[2].date
    /\ posting.out.val[2]["HRIS Final Hire"] = MaxDate + 2
    /\ posting.out.val[2]["HRIS Final Termination"] = MaxDate + 3

\* The positions of the events selected for 'HRIS Original Termination',
\* 'HRIS Rehire', 'HRIS Retermination', 'HRIS Final Hire' and
\* 'HRIS Final Termination' (0: none found).
SelectedFor(e, field) ==
    scan_pos(e.data, 1, 0, FieldCall(field).n, FieldCall(field).search_value)

Selected(e) ==
    << SelectedFor(e, "HRIS Original Termination"), SelectedFor(e, "HRIS Rehire"),
       SelectedFor(e, "HRIS Retermination"), SelectedFor(e, "HRIS Final Hire"),
       SelectedFor(e, "HRIS Final Termination") >>

\* C19: the events selected for Termination #1, Rehire #1, Termination #2,
\* Rehire #2 and Termination #3, those that are found, lie at strictly
\* increasing positions of the event sequence; a rehire is found only if its
\* termination is, and a termination only if the one before it is.
C19_IncreasingPositions ==
    (posting.done /\ posting.out.kind = "return") =>
        \A i \in Roster :
            LET e == empl_stat_data[i]
                rec == posting.out.val[i]
                p == Selected(e)
            IN /\ \A k \in 1..5 :
                     rec[LifecycleFields[k + 1]] =
                        IF p[k] = 0 THEN EmptyString ELSE e.data[p[k]].date
               /\ \A k \in 1..5 : \A l \in (k + 1)..5 :
                     (p[k] # 0 /\ p[l] # 0) => p[k] < p[l]
               /\ p[2] # 0 => p[1] # 0
               /\ p[4] # 0 => p[3] # 0
               /\ p[3] # 0 => p[1] # 0
               /\ p[5] # 0 => p[3] # 0

\* C19 witness: all five events are found, at positions 1 to 5, behind a
\* first "Re-Terminated" event.
C19_Witness ==
    /\ posting.done /\ posting.out.kind = "return"
    /\ Len(empl_stat_data) = 1
    /\ Len(empl_stat_data[1].data) = 5
    /\ empl_stat_data[1].data[1].employmentStatus = ReTerminated
    /\ Selected(empl_stat_data[1]) = << 1, 2, 3, 4, 5 >>
    /\ posting.out.val[1]["HRIS Final Termination"] = MaxDate + 3

(***************************************************************************)
(* Further properties of the Vault (VaultFreshSpec, VaultSpec).            *)
(***************************************************************************)
\* C14: after any sequence of encrypt_to_config calls by one writer on a store
\* that started missing or empty, for every name the key field is present iff
\* the ciphertext field is, and the stored key is the one generated in the
\* same encrypt call as the stored ciphertext: never the key of another call
\* or of another name.
C14_StoreInvariant ==
    \A p \in Paths :
        fs[p].kind = "object" =>
            /\ DOMAIN fs[p].obj \subseteq UNION { Fields(n) : n \in Names }
            /\ \A n \in Names :
                  /\ key_name(n) \in DOMAIN fs[p].obj <=> stoken_name(n) \in DOMAIN fs[p].obj
                  /\ key_name(n) \in DOMAIN fs[p].obj =>
                        LET key == fs[p].obj[key_name(n)]
                            stoken == fs[p].obj[stoken_name(n)]
                        IN /\ key.what = "key" /\ stoken.what = "token"
                           /\ stoken.k = key.k /\ stoken.iv = key.k
                           /\ written[<<p, n>>].set
                           /\ written[<<p, n>>].key = key
                           /\ written[<<p, n>>].stoken = stoken
                           /\ \A m \in Names \ {n} :
                                 key_name(m) \in DOMAIN fs[p].obj =>
                                    fs[p].obj[stoken_name(m)].k # key.k

\* C14 witness: a store that was an empty file holds the records of two
\* calls, under "a" and under "a_key", each key next to its own ciphertext.
C14_Witness ==
    /\ calls = 2
    /\ last.op = "encrypt_to_config" /\ last.name = <<"a","_","k","e","y">>
    /\ last.pre.kind = "object"
    /\ file.kind = "object"
    /\ DOMAIN file.obj = Fields(<<"a">>) \cup Fields(<<"a","_","k","e","y">>)
    /\ file.obj[key_name(<<"a">>)].k = 1
    /\ file.obj[stoken_name(<<"a">>)].k = 1
    /\ file.obj[key_name(<<"a","_","k","e","y">>)].k = 2
    /\ file.obj[stoken_name(<<"a","_","k","e","y">>)].k = 2

\* C15: every encrypt call generates a fresh key: the records of two calls,
\* on the same plaintext or not, differ in key and in ciphertext; no two names
\* of a store share a key; and a call that overwrites a name leaves neither
\* the previous key nor the previous ciphertext.
C15_KeyIndependence ==
    /\ \A pn \in Paths \X Names, qm \in Paths \X Names :
          (pn # qm /\ written[pn].set /\ written[qm].set) =>
              /\ written[pn].key # written[qm].key
              /\ written[pn].stoken # written[qm].stoken
    /\ \A p \in Paths, n \in Names, m \in Names :
          (/\ n # m
           /\ fs[p].kind = "object"
           /\ key_name(n) \in DOMAIN fs[p].obj
           /\ key_name(m) \in DOMAIN fs[p].obj) =>
              fs[p].obj[key_name(n)] # fs[p].obj[key_name(m)]
    /\ (last.op = "encrypt_to_config" /\ last.pre.kind = "object") =>
          /\ key_name(last.name) \in DOMAIN last.pre.obj =>
                file.obj[key_name(last.name)] # last.pre.obj[key_name(last.name)]
          /\ stoken_name(last.name) \in DOMAIN last.pre.obj =>
                file.obj[stoken_name(last.name)] # last.pre.obj[stoken_name(last.name)]

\* C15 witness: the second call stores the same plaintext under the same name
\* as the first, and both the key and the ciphertext changed.
C15_Witness ==
    /\ calls = 2
    /\ last.op = "encrypt_to_config" /\ last.name = <<"b">>
    /\ last.secret = <<65, 233, 8364>>
    /\ last.pre.kind = "object"
    /\ Fields(<<"b">>) \subseteq DOMAIN last.pre.obj
    /\ last.pre.obj[stoken_name(<<"b">>)].pt = Utf8Encode(last.secret)
    /\ last.pre.obj[key_name(<<"b">>)].k = 1
    /\ file.obj[key_name(<<"b">>)].k = 2
    /\ file.obj[stoken_name(<<"b">>)].pt = Utf8Encode(last.secret)

(***************************************************************************)
(* Properties of concurrent Vault calls (VaultConcSpec).                   *)
(***************************************************************************)
\* C13: encrypt_to_config writes the merged store back atomically: a
\* decrypt_from_config that runs beside one encrypt_to_config call loads
\* either the complete store as it was before the call or the complete merged
\* store, never an empty, truncated or partly written file.
C13_AtomicWrite ==
    (conc.seen.is /\ conc.seen.writing = {1} /\ conc.w[2].pc = "idle") =>
        \/ conc.seen.view = conc.init
        \/ /\ conc.w[1].pc \in {"open", "dump", "done"}
           /\ conc.seen.view = Object(conc.w[1].config)

\* C16: with two encrypt_to_config calls running on the same store file, the
\* final store is exactly the store computed by the call that wrote last and
\* holds that call's record.
C16_LastWriterWins ==
    (\A i \in Writers : conc.w[i].pc = "done") =>
        /\ conc.file = Object(conc.w[conc.lastw].config)
        /\ \A f \in DOMAIN conc.w[conc.lastw].data :
              conc.file.obj[f] = conc.w[conc.lastw].data[f]

(***************************************************************************)
(* Properties of setup_logger (LoggerSpec).                                *)
(***************************************************************************)
\* One console handler, at most one file handler and nothing else.
WellFormedHandlers(hs) ==
    /\ Cardinality({ k \in 1..Len(hs) : hs[k].kind = "console" }) = 1
    /\ Cardinality({ k \in 1..Len(hs) : hs[k].kind = "file" }) <= 1
    /\ \A k \in 1..Len(hs) : hs[k].kind \in {"console", "file"}
    /\ \A k \in 1..Len(hs), l \in 1..Len(hs) : k # l => hs[k] # hs[l]

\* The last call left the level and the handlers of its logger as they were
\* and returned that logger.
LastCallChangedNothing ==
    /\ logger.last.out = Return(logger.last.name)
    /\ logger.obj[logger.last.name].level = logger.last.before.level
    /\ logger.obj[logger.last.name].handlers = logger.last.before.handlers

\* C17 as claimed: after any number of setup_logger calls with one name, the
\* logger carries exactly the handlers installed by the first call (one
\* console handler, at most one file handler, no duplicates), and every later
\* call returns the same logger without changing its level or handlers.
C17_FirstCallGuards ==
    /\ \A n \in LoggerNames :
          logger.first[n].is =>
              /\ logger.obj[n].handlers = logger.first[n].handlers
              /\ WellFormedHandlers(logger.obj[n].handlers)
    /\ logger.last.nth >= 2 => LastCallChangedNothing

\* C17, amended: the logger carries exactly the handlers installed by the
\* first call that returned (one console handler, at most one file handler, no
\* duplicates) and its level, and every call after that one returns the same
\* logger without changing its level or handlers; a call that raises leaves
\* the console handler alone on the logger and the guard unset, so that the
\* next call configures the logger afresh.
C17_FirstCompletedCallGuards ==
    /\ \A n \in LoggerNames :
          /\ logger.first[n].is => WellFormedHandlers(logger.obj[n].handlers)
          /\ logger.completed[n].is <=> logger.obj[n].configured
          /\ logger.completed[n].is =>
                /\ logger.obj[n].handlers = logger.completed[n].handlers
                /\ logger.obj[n].level = logger.completed[n].level
          /\ (logger.first[n].is /\ ~logger.completed[n].is) =>
                /\ Len(logger.obj[n].handlers) = 1
                /\ logger.obj[n].handlers[1].kind = "console"
    /\ (logger.last.nth >= 1 /\ logger.last.before.configured) => LastCallChangedNothing
    /\ (logger.last.nth >= 1 /\ logger.last.out.kind = "raise") =>
          /\ ~logger.last.before.configured
          /\ logger.last.out = Raise("OSError")

\* C17 witness: the first call with the name raised on its file path, the
\* second installed a console and a file handler, and the third, with other
\* arguments, changed nothing.
C17_Witness ==
    /\ logger.calls = 3
    /\ logger.last.name = "main" /\ logger.last.nth = 3
    /\ logger.last.before.configured
    /\ Len(logger.first["main"].handlers) = 1
    /\ logger.first["main"].level = "DEBUG"
    /\ logger.completed["main"].level = "INFO"
    /\ Len(logger.obj["main"].handlers) = 2
    /\ logger.obj["main"].handlers[2] = Handler("file", "INFO", "configs/log.log", 2)
    /\ logger.obj["main"].level = "INFO"

(***************************************************************************)
(* Properties of the sheet client (GridSpec).                              *)
(***************************************************************************)
\* The positions of the requests of one kind.
RequestsOf(op) == { k \in 1..Len(sheet.requests) : sheet.requests[k].op = op }

\* The row ids of the delete requests from request k on, in the order sent.
RECURSIVE DeletedFrom(_)
DeletedFrom(k) ==
    IF k > Len(sheet.requests) THEN <<>>
    ELSE (IF sheet.requests[k].op = "delete_rows" THEN sheet.requests[k].ids ELSE <<>>)
         \o DeletedFrom(k + 1)

C21_TerminationsAgree ==
    (/\ OriginalHireCall
     /\ Len(data) >= 2
     /\ data[2].date # SENTINEL
     /\ IsTermination(data[2].employmentStatus)) =>
        ret.out = Return(HireDate)

(***************************************************************************)
(* Equivalence of the two implementations (PairSpec).                      *)
(***************************************************************************)
\* C22: src/main.py and src/historic_data_pull.py are equivalent on the
\* lifecycle dates: for every employee record and every directory answer they
\* produce the same six values for Original Hire, Termination #1-3 and
\* Rehire #1-2 (or fail alike on a record without events) and make the same
\* directory lookup calls.
C22_SameLifecycle ==
    (posting.done /\ hist_posting.done) =>
        /\ posting.apis = hist_posting.apis
        /\ posting.out.kind = hist_posting.out.kind
        /\ posting.out.exc = hist_posting.out.exc
        /\ posting.out.kind = "return" =>
              /\ Len(posting.out.val) = Len(hist_posting.out.val)
              /\ \A i \in 1..Len(posting.out.val) :
                    \A k \in 1..Len(LifecycleFields) :
                        posting.out.val[i][LifecycleFields[k]]
                           = hist_posting.out.val[i][LifecycleFields[k]]
        /\ posting.api_log = hist_posting.api_log

\* C22 witness: both implementations arranged a record whose first date is
\* the sentinel and which was terminated three times; both asked the
\* directory once and both filled the six fields.
C22_Witness ==
    /\ posting.done /\ hist_posting.done
    /\ posting.out.kind = "return" /\ hist_posting.out.kind = "return"
    /\ Len(empl_stat_data[1].data) = 5
    /\ empl_stat_data[1].data[1] = Event(SENTINEL, ReTerminated)
    /\ posting.api_log = << <<"1", 2>> >>
    /\ hist_posting.api_log = << <<"1", 2>> >>
    /\ hist_posting.out.val[1]["HRIS Original Hire"] = 1
    /\ hist_posting.out.val[1]["HRIS Rehire"] = 1
    /\ hist_posting.out.val[1]["HRIS Final Hire"] = MaxDate + 2
    /\ hist_posting.out.val[1]["HRIS Final Termination"] = MaxDate + 3
    /\ posting.out.val[1]["HRIS Final Termination"] = MaxDate + 3

====
